---------------------------- MODULE Spec2Model ----------------------------
(***************************************************************************)
(* Merkator: reading and writing WGS84 coordinates in sexagesimal and      *)
(* decimal notation.                                                       *)
(*                                                                         *)
(* The repository holds five iterations of the same library.  Each is      *)
(* modelled, under the name used as its suffix below:                      *)
(*   dist1  src/dist/merkator.js lines   12-382  (prototype, throws)       *)
(*   dist2  src/dist/merkator.js lines  394-834  (module-level variables)  *)
(*   dist3  src/dist/merkator.js lines  846-1188 (prototype, console.log)  *)
(*   src    src/merkator.js                      (constructor closure)     *)
(*   part   src/unnamed/part_000                 (module-level, clearVars) *)
(*                                                                         *)
(* JavaScript values are records.  A number is an exact rational           *)
(* sign * (w + f / FracDen): w whole degrees, f a numerator.  Strings are  *)
(* TLA+ strings; the string functions work on their sequence of            *)
(* one-character strings.  The character "^" stands for the degree sign.   *)
(***************************************************************************)
EXTENDS Integers, Sequences, FiniteSets, TLC

\* ------------------------------------------------------------------------
\* JavaScript values
\* ------------------------------------------------------------------------

\* Denominator of the fractional part of a number: 1/3600 degree (one second
\* of arc) and 10^-7 are both whole multiples of 1/FracDen.
FracDen == 3600 * 100000

\* null, the "unset" sentinel of lon and lat
Null == [k |-> "null", neg |-> FALSE, w |-> 0, f |-> 0]

NaN == [k |-> "nan", neg |-> FALSE, w |-> 0, f |-> 0]

\* undefined (a capture group that took no part in the match, a missing
\* array element)
Undefined == [k |-> "undefined", neg |-> FALSE, w |-> 0, f |-> 0]

\* The number sign * (w + f / FracDen); -0 and 0 are one value (they differ
\* in no operation the library uses).
Num(neg, w, f) == [k |-> "num", neg |-> neg /\ (w # 0 \/ f # 0), w |-> w, f |-> f]

\* A whole number of degrees
Int2Num(n) == IF n < 0 THEN Num(TRUE, -n, 0) ELSE Num(FALSE, n, 0)

\* A string value, as an argument of readCoord or readString
Str(s) == [k |-> "str", s |-> s]

IsNum(v) == v.k = "num"

\* Math.abs: the argument as a number (null is 0, undefined is NaN) without
\* its sign
Abs(v) ==
    IF IsNum(v) THEN Num(FALSE, v.w, v.f)
    ELSE IF v = Null THEN Num(FALSE, 0, 0) ELSE NaN

\* unary minus, what parseFloat('-' + y) yields for a number y >= 0
Negate(v) == IF IsNum(v) THEN Num(~v.neg, v.w, v.f) ELSE NaN

\* a > n for a whole number n >= 0; false when a is NaN
GtInt(a, n) == IsNum(a) /\ ~a.neg /\ (a.w > n \/ (a.w = n /\ a.f > 0))

\* a > 0
GtZero(a) == IsNum(a) /\ ~a.neg /\ (a.w > 0 \/ a.f > 0)

\* the boolean false (what cleanseString returns for a falsy argument)
False == [k |-> "false", neg |-> FALSE, w |-> 0, f |-> 0]

\* ToBoolean: null, undefined, false, NaN, 0 and "" are falsy
Truthy(v) ==
    CASE v.k = "num" -> v.w # 0 \/ v.f # 0
      [] v.k = "str" -> v.s # ""
      [] OTHER -> FALSE

\* a + b for a, b >= 0
Add(a, b) ==
    IF ~(IsNum(a) /\ IsNum(b)) THEN NaN
    ELSE Num(FALSE, a.w + b.w + ((a.f + b.f) \div FracDen), (a.f + b.f) % FracDen)

\* a / 60 for a >= 0
Div60(a) ==
    IF ~IsNum(a) THEN NaN
    ELSE Num(FALSE, a.w \div 60, (a.w % 60) * (FracDen \div 60) + (a.f \div 60))

\* a / 10 and a * 10 for a >= 0 (the exponent of a numeric literal)
Div10(a) == Num(a.neg, a.w \div 10, (a.w % 10) * (FracDen \div 10) + (a.f \div 10))

Mul10(a) == Num(a.neg, a.w * 10 + (a.f \div (FracDen \div 10)), (a.f % (FracDen \div 10)) * 10)

\* ------------------------------------------------------------------------
\* Characters and strings
\* ------------------------------------------------------------------------

Digits == <<"0", "1", "2", "3", "4", "5", "6", "7", "8", "9">>

DigitSet == {Digits[i] : i \in 1..10}

DigitVal(c) == (CHOOSE i \in 1..10 : Digits[i] = c) - 1

UpperSeq == <<"A", "B", "C", "D", "E", "F", "G", "H", "I", "J", "K", "L", "M",
             "N", "O", "P", "Q", "R", "S", "T", "U", "V", "W", "X", "Y", "Z">>

LowerSeq == <<"a", "b", "c", "d", "e", "f", "g", "h", "i", "j", "k", "l", "m",
             "n", "o", "p", "q", "r", "s", "t", "u", "v", "w", "x", "y", "z">>

\* A-Z and a-z of a character class
Upper == {UpperSeq[i] : i \in 1..Len(UpperSeq)}

Lower == {LowerSeq[i] : i \in 1..Len(LowerSeq)}

\* String.prototype.toLowerCase
ToLowerCase(cs) ==
    [i \in 1..Len(cs) |->
        IF cs[i] \in Upper THEN LowerSeq[CHOOSE j \in 1..Len(UpperSeq) : UpperSeq[j] = cs[i]]
        ELSE cs[i]]

\* \s of a regular expression
WhiteSpace == {" ", "\t", "\n", "\r"}

\* the sequence of the characters of a string
Chars(s) == [i \in 1..Len(s) |-> SubSeq(s, i, i)]

\* the string of a sequence of characters
RECURSIVE Join(_)
Join(cs) == IF cs = <<>> THEN "" ELSE Head(cs) \o Join(Tail(cs))

\* how many digits cs holds from position i on
RECURSIVE DigitRun(_, _)
DigitRun(cs, i) ==
    IF i <= Len(cs) /\ cs[i] \in DigitSet THEN 1 + DigitRun(cs, i + 1) ELSE 0

\* the whole number written by the n digits of cs from position i on
RECURSIVE IntVal(_, _, _)
IntVal(cs, i, n) ==
    IF n = 0 THEN 0 ELSE IntVal(cs, i, n - 1) * 10 + DigitVal(cs[i + n - 1])

\* the numerator over FracDen written by the n fraction digits of cs from
\* position i on; the digits after the seventh are below 1/FracDen
RECURSIVE FracVal(_, _, _, _)
FracVal(cs, i, n, scale) ==
    IF n = 0 \/ scale < FracDen \div 10000000 THEN 0
    ELSE DigitVal(cs[i]) * scale + FracVal(cs, i + 1, n - 1, scale \div 10)

RECURSIVE SkipWhite(_, _)
SkipWhite(cs, i) ==
    IF i <= Len(cs) /\ cs[i] \in WhiteSpace THEN SkipWhite(cs, i + 1) ELSE i

RECURSIVE Scale10(_, _)
Scale10(v, e) ==
    IF e = 0 THEN v
    ELSE IF e < 0 THEN Scale10(Div10(v), e + 1) ELSE Scale10(Mul10(v), e - 1)

\* the exponent written from position i4 on, negative when eneg
ParseExponentDigits(cs, i4, eneg) ==
    IF eneg THEN 0 - IntVal(cs, i4, DigitRun(cs, i4)) ELSE IntVal(cs, i4, DigitRun(cs, i4))

\* the exponent part at position i3: e or E, a sign, digits; 0 without one
ParseExponent(cs, i3) ==
    IF ~(i3 <= Len(cs) /\ cs[i3] \in {"e", "E"}) THEN 0
    ELSE IF i3 + 1 <= Len(cs) /\ cs[i3 + 1] \in {"-", "+"}
         THEN ParseExponentDigits(cs, i3 + 2, cs[i3 + 1] = "-")
         ELSE ParseExponentDigits(cs, i3 + 1, FALSE)

\* the literal with ni digits from i1 on, nf fraction digits, ending before i3
ParseLiteral(cs, neg, i1, ni, nf, i3) ==
    IF ni = 0 /\ nf = 0 THEN NaN
    ELSE Scale10(Num(neg, IntVal(cs, i1, ni), FracVal(cs, i1 + ni + 1, nf, FracDen \div 10)),
                 ParseExponent(cs, i3))

\* the fraction part after the ni digits from i1 on
ParseFraction(cs, neg, i1, ni) ==
    IF i1 + ni <= Len(cs) /\ cs[i1 + ni] = "."
    THEN ParseLiteral(cs, neg, i1, ni, DigitRun(cs, i1 + ni + 1),
                      i1 + ni + 1 + DigitRun(cs, i1 + ni + 1))
    ELSE ParseLiteral(cs, neg, i1, ni, 0, i1 + ni)

\* the sign at position i0
ParseSign(cs, i0) ==
    IF i0 <= Len(cs) /\ cs[i0] \in {"-", "+"}
    THEN ParseFraction(cs, cs[i0] = "-", i0 + 1, DigitRun(cs, i0 + 1))
    ELSE ParseFraction(cs, FALSE, i0, DigitRun(cs, i0))

\* parseFloat of a string: the longest prefix that is a decimal literal
\* (white space, sign, digits, fraction, exponent), NaN when there is none
parseFloatChars(cs) == ParseSign(cs, SkipWhite(cs, 1))

\* the digits of n, most significant first
RECURSIVE IntChars(_)
IntChars(n) == IF n < 10 THEN <<Digits[n + 1]>> ELSE Append(IntChars(n \div 10), Digits[(n % 10) + 1])

\* the fraction digits of numerator f, of which scale is the weight of the
\* first; trailing zeros are not written, and seven digits are (a number
\* with more is written to seven)
RECURSIVE FracChars(_, _)
FracChars(f, scale) ==
    IF f = 0 \/ scale < FracDen \div 10000000 THEN <<>>
    ELSE <<Digits[(f \div scale) + 1]>> \o FracChars(f % scale, scale \div 10)

\* ToString of a value (Number::toString for a number): NaN, null,
\* undefined and false by name, a number below 10^-6 with an exponent, any
\* other number as digits, point and fraction digits
ToChars(v) ==
    CASE v.k = "str" -> Chars(v.s)
      [] v.k = "nan" -> Chars("NaN")
      [] v.k = "null" -> Chars("null")
      [] v.k = "undefined" -> Chars("undefined")
      [] v.k = "false" -> Chars("false")
      [] v.k = "num" ->
           LET sign == IF v.neg THEN <<"-">> ELSE <<>>
               tiny == v.w = 0 /\ v.f > 0 /\ v.f < FracDen \div 1000000
               frac == FracChars(v.f, FracDen \div 10)
           IN  IF tiny
               THEN sign \o FracChars(v.f * 1000000, FracDen \div 10) \o <<"e", "-", "7">>
               ELSE sign \o IntChars(v.w) \o (IF frac = <<>> THEN <<>> ELSE <<".">> \o frac)

\* parseFloat(x): of a string its numeric prefix; of a number the number
\* itself (ToString writes the digits that read back as the same number);
\* of null, undefined or NaN, NaN
parseFloat(v) ==
    CASE v.k = "num" -> v
      [] v.k = "str" -> parseFloatChars(Chars(v.s))
      [] OTHER -> NaN

\* ------------------------------------------------------------------------
\* Regular expressions: RegExp.prototype.exec of an anchored pattern
\* ------------------------------------------------------------------------
\* A pattern is a tree: one character of a set ("set") or outside one
\* ("nset"), a sequence ("cat"), alternatives in order ("alt"), a greedy
\* repetition ("rep", lo to hi times) and a capture group ("grp").  Rx
\* yields the ways the pattern matches from position i, in the order in
\* which a backtracking matcher tries them: the alternatives in the order
\* the pattern gives them, one more repetition before stopping.  Of two ways
\* that end at the same position the matcher never reaches the second (what
\* follows succeeds after both or after neither), so only the first is kept.
\* The first way that ends at the end of the input is the match exec
\* returns.

RxSet(cs) == [t |-> "set", cs |-> cs]

RxNot(cs) == [t |-> "nset", cs |-> cs]

RxChr(c) == [t |-> "set", cs |-> {c}]

RxCat(xs) == [t |-> "cat", xs |-> xs]

RxAlt(xs) == [t |-> "alt", xs |-> xs]

RxRep(x, lo, hi) == [t |-> "rep", x |-> x, lo |-> lo, hi |-> hi]

\* x?
RxOpt(x) == RxRep(x, 0, 1)

\* x+, x{1,}: every input is shorter than this
RxMany == 64

RxPlus(x) == RxRep(x, 1, RxMany)

RxGrp(n, x) == [t |-> "grp", n |-> n, x |-> x]

\* a literal word
RxLit(s) == RxCat([i \in 1..Len(s) |-> RxChr(SubSeq(s, i, i))])

\* \d
RxDigit == RxSet(DigitSet)

\* one digit of lo..hi
RxRange(lo, hi) == RxSet({Digits[i + 1] : i \in lo..hi})

\* rs without the ways that end where an earlier one ends
RECURSIVE RxFirstsFrom(_, _)
RxFirstsFrom(rs, j) ==
    IF j > Len(rs) THEN <<>>
    ELSE (IF \A h \in 1..(j - 1) : rs[h].pos # rs[j].pos THEN <<rs[j]>> ELSE <<>>)
         \o RxFirstsFrom(rs, j + 1)

RxFirsts(rs) == IF Len(rs) < 2 THEN rs ELSE RxFirstsFrom(rs, 1)

RECURSIVE Rx(_, _, _, _)
RECURSIVE RxCatFrom(_, _, _, _)
RECURSIVE RxEach(_, _, _, _)
RECURSIVE RxAltFrom(_, _, _, _, _)
RECURSIVE RxRepFrom(_, _, _, _, _)
RECURSIVE RxRepEach(_, _, _, _, _, _)

Rx(re, s, i, caps) ==
    CASE re.t = "set" ->
           IF i <= Len(s) /\ s[i] \in re.cs THEN <<[pos |-> i + 1, caps |-> caps]>> ELSE <<>>
      [] re.t = "nset" ->
           IF i <= Len(s) /\ s[i] \notin re.cs THEN <<[pos |-> i + 1, caps |-> caps]>> ELSE <<>>
      [] re.t = "cat" -> RxCatFrom(re.xs, 1, s, <<[pos |-> i, caps |-> caps]>>)
      [] re.t = "alt" -> RxFirsts(RxAltFrom(re.xs, 1, s, i, caps))
      [] re.t = "rep" -> RxFirsts(RxRepFrom(re, 0, s, i, caps))
      [] re.t = "grp" ->
           LET rs == Rx(re.x, s, i, caps)
           IN  [j \in 1..Len(rs) |->
                   [pos |-> rs[j].pos,
                    caps |-> [rs[j].caps EXCEPT ![re.n] = Str(Join(SubSeq(s, i, rs[j].pos - 1)))]]]

\* the matches of xs[k], xs[k+1], ... after each of the matches rs of what
\* precedes them
RxCatFrom(xs, k, s, rs) ==
    IF k > Len(xs) \/ rs = <<>> THEN rs
    ELSE RxCatFrom(xs, k + 1, s, RxFirsts(RxEach(xs[k], s, rs, 1)))

RxEach(x, s, rs, j) ==
    IF j > Len(rs) THEN <<>>
    ELSE Rx(x, s, rs[j].pos, rs[j].caps) \o RxEach(x, s, rs, j + 1)

RxAltFrom(xs, k, s, i, caps) ==
    IF k > Len(xs) THEN <<>>
    ELSE Rx(xs[k], s, i, caps) \o RxAltFrom(xs, k + 1, s, i, caps)

\* greedy: one more repetition is tried before stopping after n
RxRepFrom(re, n, s, i, caps) ==
    (IF n < re.hi THEN RxRepEach(re, n, s, i, Rx(re.x, s, i, caps), 1) ELSE <<>>)
    \o (IF n >= re.lo THEN <<[pos |-> i, caps |-> caps]>> ELSE <<>>)

RxRepEach(re, n, s, i, rs, j) ==
    IF j > Len(rs) THEN <<>>
    ELSE (IF rs[j].pos > i THEN RxRepFrom(re, n + 1, s, rs[j].pos, rs[j].caps) ELSE <<>>)
         \o RxRepEach(re, n, s, i, rs, j + 1)

\* the result of exec when the pattern does not match (null)
NoMatch == [matched |-> FALSE, caps |-> <<>>]

\* /^re$/.exec(cs) for a pattern of ng capture groups: the groups of the
\* first match that ends at the end of the input; a group that took no part
\* in it is undefined
RxExec(re, cs, ng) ==
    LET rs   == Rx(re, cs, 1, [g \in 1..ng |-> Undefined])
        full == SelectSeq(rs, LAMBDA r : r.pos = Len(cs) + 1)
    IN  IF full = <<>> THEN NoMatch ELSE [matched |-> TRUE, caps |-> full[1].caps]

\* String.prototype.replace(/[set]/g, by): every character of the set
\* replaced
RECURSIVE ReplaceAll(_, _, _)
ReplaceAll(cs, set, by) ==
    IF cs = <<>> THEN <<>>
    ELSE (IF Head(cs) \in set THEN by ELSE <<Head(cs)>>) \o ReplaceAll(Tail(cs), set, by)

\* String.prototype.replace(/\s+/g, by): every run of white space replaced
RECURSIVE ReplaceRuns(_, _, _)
ReplaceRuns(cs, by, inRun) ==
    IF cs = <<>> THEN <<>>
    ELSE IF Head(cs) \in WhiteSpace
         THEN (IF inRun THEN <<>> ELSE by) \o ReplaceRuns(Tail(cs), by, TRUE)
         ELSE <<Head(cs)>> \o ReplaceRuns(Tail(cs), by, FALSE)

\* String.prototype.trim
RECURSIVE TrimLeft(_)
TrimLeft(cs) == IF cs # <<>> /\ Head(cs) \in WhiteSpace THEN TrimLeft(Tail(cs)) ELSE cs

RECURSIVE TrimRight(_)
TrimRight(cs) ==
    IF cs # <<>> /\ cs[Len(cs)] \in WhiteSpace THEN TrimRight(SubSeq(cs, 1, Len(cs) - 1)) ELSE cs

Trim(cs) == TrimRight(TrimLeft(cs))

\* String.prototype.replace(/[^keep]/g, by): every character outside the
\* set replaced
RECURSIVE ReplaceOutside(_, _, _)
ReplaceOutside(cs, keep, by) ==
    IF cs = <<>> THEN <<>>
    ELSE (IF Head(cs) \notin keep THEN by ELSE <<Head(cs)>>) \o ReplaceOutside(Tail(cs), keep, by)

\* String.prototype.replace(/[^keep]/, by), without the g flag: only the
\* first character outside the set replaced
RECURSIVE ReplaceFirstOutside(_, _, _)
ReplaceFirstOutside(cs, keep, by) ==
    IF cs = <<>> THEN <<>>
    ELSE IF Head(cs) \notin keep THEN by \o Tail(cs)
         ELSE <<Head(cs)>> \o ReplaceFirstOutside(Tail(cs), keep, by)

\* a + b of two strings, or of a string and undefined
StrCat(a, b) == Str(Join(ToChars(a) \o ToChars(b)))

\* element idx (from 0) of what a parser returned: undefined when it
\* returned false
ArrGet(tokens, idx) == IF tokens.matched THEN tokens.arr[idx + 1] ELSE Undefined

\* ------------------------------------------------------------------------
\* The state of a coordinate, and what an operation yields
\* ------------------------------------------------------------------------

\* lon = null, lat = null, rawString = "": a new Merkator, or the module
\* just loaded
Empty == [lon |-> Null, lat |-> Null, rawString |-> Str("")]

\* What a call yields: the state it leaves, whether it succeeded (it
\* returned neither false nor threw), the message it logged or threw, whether
\* it threw, and the string it returned.
Res(st, ok, err, thrown, out) ==
    [st |-> st, ok |-> ok, err |-> err, thrown |-> thrown, out |-> out]

\* the bounds every variant tests with Math.abs(y) > 90, Math.abs(x) > 180
LatMax == 90

LonMax == 180

\* ------------------------------------------------------------------------
\* toDecimals, the same text in the five variants
\* ------------------------------------------------------------------------

\* a toDecimals that takes the seconds for minutes
toDecimals_secondsAsMinutes(deg, min, sec) ==
    LET minutes == Add(parseFloat(min), parseFloat(sec))
    IN  Add(parseFloat(deg), Div60(parseFloat(minutes)))

toDecimals(deg, min, sec) ==
    LET minutes == Add(parseFloat(min), Div60(parseFloat(sec)))
    IN  Add(parseFloat(deg), Div60(parseFloat(minutes)))

\* if (card === minus) { v = parseFloat('-' + v) }: the digits of v read
\* back behind a minus sign
SignBy(card, minus, v) == IF card = Str(minus) THEN Negate(v) ELSE v

\* ------------------------------------------------------------------------
\* src: src/merkator.js, the constructor whose methods close over _this
\* ------------------------------------------------------------------------

\* string.replace(/\s+/g, '#'), false for a falsy argument
cleanseString_src(string) ==
    IF ~Truthy(string) THEN False
    ELSE Str(Join(ReplaceRuns(ToChars(string), <<"#">>, FALSE)))

\* /^#?(\d{1,2})[°]?#?(\d{1,2})[']?#?([0-9]{1,2}\.?[0-9]+)["]?#?([NS])
\*   #?(\d{1,3})[°]?#?(\d{1,2})[']?#?([0-9]{1,2}\.?[0-9]+)["]?#?([EW])#?$/
searchSexagesimal_src ==
    RxCat(<<RxOpt(RxChr("#")),
            RxGrp(1, RxRep(RxDigit, 1, 2)), RxOpt(RxSet({"^"})), RxOpt(RxChr("#")),
            RxGrp(2, RxRep(RxDigit, 1, 2)), RxOpt(RxSet({"'"})), RxOpt(RxChr("#")),
            RxGrp(3, RxCat(<<RxRep(RxDigit, 1, 2), RxOpt(RxChr(".")), RxPlus(RxDigit)>>)),
            RxOpt(RxSet({"\""})), RxOpt(RxChr("#")),
            RxGrp(4, RxSet({"N", "S"})), RxOpt(RxChr("#")),
            RxGrp(5, RxRep(RxDigit, 1, 3)), RxOpt(RxSet({"^"})), RxOpt(RxChr("#")),
            RxGrp(6, RxRep(RxDigit, 1, 2)), RxOpt(RxSet({"'"})), RxOpt(RxChr("#")),
            RxGrp(7, RxCat(<<RxRep(RxDigit, 1, 2), RxOpt(RxChr(".")), RxPlus(RxDigit)>>)),
            RxOpt(RxSet({"\""})), RxOpt(RxChr("#")),
            RxGrp(8, RxSet({"E", "W"})), RxOpt(RxChr("#"))>>)

\* the match array (caps[n] is searchArr[n]), or false
searchSexagesimalNotation_src(string) ==
    RxExec(searchSexagesimal_src, ToChars(cleanseString_src(string)), 8)

\* /^#?(-?[0-9]{1,2}\.?[0-9]+)#(-?[0-9]{1,3}\.?[0-9]+)#?$/
searchDecimal_src ==
    RxCat(<<RxOpt(RxChr("#")),
            RxGrp(1, RxCat(<<RxOpt(RxChr("-")), RxRep(RxDigit, 1, 2), RxOpt(RxChr(".")),
                             RxPlus(RxDigit)>>)),
            RxChr("#"),
            RxGrp(2, RxCat(<<RxOpt(RxChr("-")), RxRep(RxDigit, 1, 3), RxOpt(RxChr(".")),
                             RxPlus(RxDigit)>>)),
            RxOpt(RxChr("#"))>>)

searchDecimalNotation_src(string) ==
    RxExec(searchDecimal_src, ToChars(cleanseString_src(string)), 2)

\* The checks isCoordSexagesimal runs on the match array (the comparison of
\* a captured string with a number converts the string, and for the digit
\* strings the pattern captures that is parseFloat).
SexagesimalChecks(searchArr) ==
    /\ searchArr.matched
    /\ ~GtInt(parseFloat(searchArr.caps[1]), LatMax)
    /\ ~GtInt(parseFloat(searchArr.caps[2]), 60)
    /\ ~GtInt(parseFloat(searchArr.caps[3]), 60)
    /\ searchArr.caps[4] \in {Str("N"), Str("S")}
    /\ ~GtInt(parseFloat(searchArr.caps[5]), LonMax)
    /\ ~GtInt(parseFloat(searchArr.caps[6]), 60)
    /\ ~GtInt(parseFloat(searchArr.caps[7]), 60)
    /\ searchArr.caps[8] \in {Str("E"), Str("W")}

\* The checks isCoordDecimal runs on the match array
DecimalChecks(searchArr) ==
    /\ searchArr.matched
    /\ ~GtInt(Abs(parseFloat(searchArr.caps[1])), LatMax)
    /\ ~GtInt(Abs(parseFloat(searchArr.caps[2])), LonMax)

isCoordSexagesimal_src(string) == SexagesimalChecks(searchSexagesimalNotation_src(string))

isCoordDecimal_src(string) == DecimalChecks(searchDecimalNotation_src(string))

\* lon, lat and rawString set from a sexagesimal match
setCoordSexagesimal(st, searchArr, string) ==
    [lon |-> SignBy(searchArr.caps[8], "W",
                    toDecimals(searchArr.caps[5], searchArr.caps[6], searchArr.caps[7])),
     lat |-> SignBy(searchArr.caps[4], "S",
                    toDecimals(searchArr.caps[1], searchArr.caps[2], searchArr.caps[3])),
     rawString |-> string]

\* lon, lat and rawString set from a decimal match
setCoordDecimal(st, searchArr, string) ==
    LET y == parseFloat(searchArr.caps[1])
        x == parseFloat(searchArr.caps[2])
    IN  [lon |-> x, lat |-> y, rawString |-> string]

\* what createCoordFromString returns (ok) and the state it leaves
createCoordFromString_src(st, string) ==
    IF isCoordSexagesimal_src(string)
    THEN [ok |-> TRUE, st |-> setCoordSexagesimal(st, searchSexagesimalNotation_src(string), string)]
    ELSE IF isCoordDecimal_src(string)
         THEN [ok |-> TRUE, st |-> setCoordDecimal(st, searchDecimalNotation_src(string), string)]
         ELSE [ok |-> FALSE, st |-> st]

\* 'Input string ' + string + ' is not a valid coordinate string!'
InvalidStringMsg(string) ==
    "Input string " \o Join(ToChars(string)) \o " is not a valid coordinate string!"

\* a readCoord that fills only a coordinate that holds nothing yet
readCoord_ifUnset(st, x, y) ==
    LET px == parseFloat(x)
        py == parseFloat(y)
    IN  IF st.lon # Null \/ GtInt(Abs(py), LatMax)
        THEN Res(st, FALSE, "Latitude value cannot be higher than 90!", FALSE, "")
        ELSE IF GtInt(Abs(px), LonMax)
             THEN Res(st, FALSE, "Longitude value cannot ben  hire than 180!", FALSE, "")
             ELSE Res([st EXCEPT !.lon = px, !.lat = py], TRUE, "", FALSE, "")

readCoord_src(st, x, y) ==
    LET px == parseFloat(x)
        py == parseFloat(y)
    IN  IF GtInt(Abs(py), LatMax)
        THEN Res(st, FALSE, "Latitude value cannot be higher than 90!", FALSE, "")
        ELSE IF GtInt(Abs(px), LonMax)
             THEN Res(st, FALSE, "Longitude value cannot ben  hire than 180!", FALSE, "")
             ELSE Res([st EXCEPT !.lon = px, !.lat = py], TRUE, "", FALSE, "")

\* a readString that reports success for every string
readString_accepting(st, string) ==
    Res(createCoordFromString_src(st, string).st, TRUE, "", FALSE, "")

readString_src(st, string) ==
    LET c == createCoordFromString_src(st, string)
    IN  IF c.ok THEN Res(c.st, TRUE, "", FALSE, "")
        ELSE Res(st, FALSE, InvalidStringMsg(string), FALSE, "")

\* lat + ' ' + lon
LatLonString(st) == Join(ToChars(st.lat) \o <<" ">> \o ToChars(st.lon))

\* lon + ' ' + lat
LonLatString(st) == Join(ToChars(st.lon) \o <<" ">> \o ToChars(st.lat))

toDecimal_src(st) ==
    IF ~Truthy(st.lon) \/ ~Truthy(st.lat)
    THEN Res(st, FALSE, "Cannot build decimal string from empty coordinate value!", FALSE, "")
    ELSE Res(st, TRUE, "", FALSE, LatLonString(st))

\* a toWkt that builds the string of whatever is stored
toWkt_unguarded(st) == Res(st, TRUE, "", FALSE, "POINT(" \o LonLatString(st) \o ")")

toWkt_src(st) ==
    IF ~Truthy(st.lon) \/ ~Truthy(st.lat)
    THEN Res(st, FALSE, "Cannot build WKT string from empty coordinate value!", FALSE, "")
    ELSE Res(st, TRUE, "", FALSE, "POINT(" \o LonLatString(st) \o ")")

\* ------------------------------------------------------------------------
\* dist2: src/dist/merkator.js 394-834, lon, lat and rawString variables of
\* the module; its functions have the text of src
\* ------------------------------------------------------------------------

\* (the call also sets this.x and this.y, which nothing reads)
readCoord_dist2(st, x, y) == readCoord_src(st, x, y)

readString_dist2(st, string) == readString_src(st, string)

toDecimal_dist2(st) == toDecimal_src(st)

toWkt_dist2(st) == toWkt_src(st)

\* ------------------------------------------------------------------------
\* part: src/unnamed/part_000, _lon, _lat and _rawString variables of the
\* module, cleared at the start of readCoord and readString
\* ------------------------------------------------------------------------

\* string.replace(/,/g, ' ') and then string.replace(/\s+/g, '#')
cleanseString_part(string) ==
    IF ~Truthy(string) THEN False
    ELSE Str(Join(ReplaceRuns(ReplaceAll(ToChars(string), {","}, <<" ">>), <<"#">>, FALSE)))

\* /^#?(\d{1,2})[:°]?#?(\d{1,2})[:']?#?([0-9]{1,2}\.?[0-9]+)[:"]?#?([NS])
\*   #?(\d{1,3})[:°]?#?(\d{1,2})[:']?#?([0-9]{1,2}\.?[0-9]+)[:"]?#?([EW])#?$/
searchSexagesimal_part ==
    RxCat(<<RxOpt(RxChr("#")),
            RxGrp(1, RxRep(RxDigit, 1, 2)), RxOpt(RxSet({":", "^"})), RxOpt(RxChr("#")),
            RxGrp(2, RxRep(RxDigit, 1, 2)), RxOpt(RxSet({":", "'"})), RxOpt(RxChr("#")),
            RxGrp(3, RxCat(<<RxRep(RxDigit, 1, 2), RxOpt(RxChr(".")), RxPlus(RxDigit)>>)),
            RxOpt(RxSet({":", "\""})), RxOpt(RxChr("#")),
            RxGrp(4, RxSet({"N", "S"})), RxOpt(RxChr("#")),
            RxGrp(5, RxRep(RxDigit, 1, 3)), RxOpt(RxSet({":", "^"})), RxOpt(RxChr("#")),
            RxGrp(6, RxRep(RxDigit, 1, 2)), RxOpt(RxSet({":", "'"})), RxOpt(RxChr("#")),
            RxGrp(7, RxCat(<<RxRep(RxDigit, 1, 2), RxOpt(RxChr(".")), RxPlus(RxDigit)>>)),
            RxOpt(RxSet({":", "\""})), RxOpt(RxChr("#")),
            RxGrp(8, RxSet({"E", "W"})), RxOpt(RxChr("#"))>>)

searchSexagesimalNotation_part(string) ==
    RxExec(searchSexagesimal_part, ToChars(cleanseString_part(string)), 8)

\* /^#?(-?[0-9]{1,3}\.?[0-9]+)#(-?[0-9]{1,3}\.?[0-9]+)#?$/
searchDecimal_part ==
    RxCat(<<RxOpt(RxChr("#")),
            RxGrp(1, RxCat(<<RxOpt(RxChr("-")), RxRep(RxDigit, 1, 3), RxOpt(RxChr(".")),
                             RxPlus(RxDigit)>>)),
            RxChr("#"),
            RxGrp(2, RxCat(<<RxOpt(RxChr("-")), RxRep(RxDigit, 1, 3), RxOpt(RxChr(".")),
                             RxPlus(RxDigit)>>)),
            RxOpt(RxChr("#"))>>)

searchDecimalNotation_part(string) ==
    RxExec(searchDecimal_part, ToChars(cleanseString_part(string)), 2)

isCoordSexagesimal_part(string) == SexagesimalChecks(searchSexagesimalNotation_part(string))

isCoordDecimal_part(string) == DecimalChecks(searchDecimalNotation_part(string))

createCoordFromString_part(st, string) ==
    IF isCoordSexagesimal_part(string)
    THEN [ok |-> TRUE, st |-> setCoordSexagesimal(st, searchSexagesimalNotation_part(string), string)]
    ELSE IF isCoordDecimal_part(string)
         THEN [ok |-> TRUE, st |-> setCoordDecimal(st, searchDecimalNotation_part(string), string)]
         ELSE [ok |-> FALSE, st |-> st]

\* a clearVars that leaves _lat as it is
clearVars_lonOnly(st) == [st EXCEPT !.lon = Null, !.rawString = Str("")]

\* _lon = null; _lat = null; _rawString = ''
clearVars(st) == [lon |-> Null, lat |-> Null, rawString |-> Str("")]

readCoord_part(st, x, y) == readCoord_src(clearVars(st), x, y)

readString_part(st, string) ==
    LET c == createCoordFromString_part(clearVars(st), string)
    IN  IF c.ok THEN Res(c.st, TRUE, "", FALSE, "")
        ELSE Res(c.st, FALSE, InvalidStringMsg(string), FALSE, "")

\* format.toLowerCase() throws a TypeError when no format is given
toDecimal_part(st, format) ==
    IF format.k # "str"
    THEN Res(st, FALSE, "TypeError", TRUE, "")
    ELSE LET lower == Join(ToLowerCase(ToChars(format)))
             fmt   == IF lower = "" THEN "yx" ELSE lower
         IN  IF ~Truthy(st.lon) \/ ~Truthy(st.lat)
             THEN Res(st, FALSE, "Cannot build decimal string from empty coordinate value!",
                      FALSE, "")
             ELSE IF fmt = "xy" THEN Res(st, TRUE, "", FALSE, LonLatString(st))
                  ELSE Res(st, TRUE, "", FALSE, LatLonString(st))

toWkt_part(st) == toWkt_src(st)

\* a switchXY that copies the longitude and keeps it
switchXY_latOnly(st) == [st EXCEPT !.lat = st.lon]

\* a switchXY that drops the input string
switchXY_forgetting(st) == [lon |-> st.lat, lat |-> st.lon, rawString |-> Str("")]

switchXY(st) == [st EXCEPT !.lon = st.lat, !.lat = st.lon]

\* ------------------------------------------------------------------------
\* dist1: the first bundle of src/dist/merkator.js, methods on
\* Merkator.prototype that throw
\* ------------------------------------------------------------------------

\* /^(\+|-)?(?:180(?:(?:\.0{1,6})?)|(?:[0-9]|[1-9][0-9]|1[0-7][0-9])(?:(?:\.[0-9]{1,})?))$/
\* run on String(value)
isValidLon(value) ==
    LET regex == RxCat(<<
            RxOpt(RxGrp(1, RxAlt(<<RxChr("+"), RxChr("-")>>))),
            RxAlt(<<RxCat(<<RxLit("180"), RxOpt(RxCat(<<RxChr("."), RxRep(RxChr("0"), 1, 6)>>))>>),
                    RxCat(<<RxAlt(<<RxRange(0, 9),
                                    RxCat(<<RxRange(1, 9), RxRange(0, 9)>>),
                                    RxCat(<<RxChr("1"), RxRange(0, 7), RxRange(0, 9)>>)>>),
                            RxOpt(RxCat(<<RxChr("."), RxPlus(RxDigit)>>))>>)>>)>>)
    IN  RxExec(regex, ToChars(value), 1).matched

\* /^(\+|-)?(?:90(?:(?:\.0{1,6})?)|(?:[0-9]|[1-8][0-9])(?:(?:\.[0-9]{1,})?))$/
isValidLat(value) ==
    LET regex == RxCat(<<
            RxOpt(RxGrp(1, RxAlt(<<RxChr("+"), RxChr("-")>>))),
            RxAlt(<<RxCat(<<RxLit("90"), RxOpt(RxCat(<<RxChr("."), RxRep(RxChr("0"), 1, 6)>>))>>),
                    RxCat(<<RxAlt(<<RxRange(0, 9),
                                    RxCat(<<RxRange(1, 8), RxRange(0, 9)>>)>>),
                            RxOpt(RxCat(<<RxChr("."), RxPlus(RxDigit)>>))>>)>>)>>)
    IN  RxExec(regex, ToChars(value), 1).matched

readCoord_dist1(st, x, y) ==
    IF ~isValidLon(x) THEN Res(st, FALSE, "Invalid longitude value!", TRUE, "")
    ELSE IF ~isValidLat(y) THEN Res(st, FALSE, "Invalid latitude value!", TRUE, "")
    ELSE LET lon == parseFloat(x)
             lat == parseFloat(y)
         IN  IF GtInt(Abs(lat), LatMax)
             THEN Res(st, FALSE, "Latitude value cannot be higher than 90!", TRUE, "")
             ELSE IF GtInt(Abs(lon), LonMax)
                  THEN Res(st, FALSE, "Longitude value cannot be hire than 180!", TRUE, "")
                  ELSE Res([st EXCEPT !.lon = lon, !.lat = lat], TRUE, "", FALSE, "")

\* the characters /[^A-Za-z0-9- \.]/ leaves in place
stripDelimiterKeep == Upper \cup Lower \cup DigitSet \cup {"-", " ", "."}

\* string.replace(/,/g, ' ') and then string.replace(/\s+/g, ' ').trim()
_cleanseString(string) ==
    IF ~Truthy(string) THEN False
    ELSE Str(Join(Trim(ReplaceRuns(ReplaceAll(ToChars(string), {","}, <<" ">>), <<" ">>, FALSE))))

\* what a parser returns: false, or the array [first, second]
NoTokens == [matched |-> FALSE, arr |-> <<>>]

Tokens(first, second) == [matched |-> TRUE, arr |-> <<first, second>>]

\* /^([-+]?([0-8]?\d(\.\d+)?|90(\.0+)?))[,\s]
\*   ([-+]?(180(\.0+)?|((1[0-7]\d)|([0-9]?\d))(\.\d+)?))$/
searchDecimal_dist1 ==
    RxCat(<<RxGrp(1, RxCat(<<RxOpt(RxSet({"-", "+"})),
                RxGrp(2, RxAlt(<<
                    RxCat(<<RxOpt(RxRange(0, 8)), RxDigit,
                            RxOpt(RxGrp(3, RxCat(<<RxChr("."), RxPlus(RxDigit)>>)))>>),
                    RxCat(<<RxLit("90"),
                            RxOpt(RxGrp(4, RxCat(<<RxChr("."), RxPlus(RxChr("0"))>>)))>>)>>))>>)),
            RxSet({","} \cup WhiteSpace),
            RxGrp(5, RxCat(<<RxOpt(RxSet({"-", "+"})),
                RxGrp(6, RxAlt(<<
                    RxCat(<<RxLit("180"),
                            RxOpt(RxGrp(7, RxCat(<<RxChr("."), RxPlus(RxChr("0"))>>)))>>),
                    RxCat(<<RxGrp(8, RxAlt(<<
                                RxGrp(9, RxCat(<<RxChr("1"), RxRange(0, 7), RxDigit>>)),
                                RxGrp(10, RxCat(<<RxOpt(RxRange(0, 9)), RxDigit>>))>>)),
                            RxOpt(RxGrp(11, RxCat(<<RxChr("."), RxPlus(RxDigit)>>)))>>)>>))>>))>>)

\* [parseFloat(searchArr[1]), parseFloat(searchArr[5])], or false
DecimalTokens(searchArr) ==
    IF ~searchArr.matched THEN NoTokens
    ELSE Tokens(parseFloat(searchArr.caps[1]), parseFloat(searchArr.caps[5]))

\* returns [x, y] with x the first number of the string and y the second
_parseDecimalNotation_dist1(string) ==
    IF string = Str("") \/ string = Undefined THEN NoTokens
    ELSE DecimalTokens(RxExec(searchDecimal_dist1,
                              ReplaceOutside(ToChars(_cleanseString(string)),
                                             stripDelimiterKeep, <<" ">>), 11))

\* (0?[0-9]|[1-8][0-9]|90)
RxLatDeg ==
    RxAlt(<<RxCat(<<RxOpt(RxChr("0")), RxRange(0, 9)>>),
            RxCat(<<RxRange(1, 8), RxRange(0, 9)>>),
            RxLit("90")>>)

\* (0?[0-9]|[1-5][0-9]|60)
RxSixty ==
    RxAlt(<<RxCat(<<RxOpt(RxChr("0")), RxRange(0, 9)>>),
            RxCat(<<RxRange(1, 5), RxRange(0, 9)>>),
            RxLit("60")>>)

\* (0?0?[0-9]|0?[1-9][0-9]|[1-9][0-9]|1[0-7][0-9]|180)
RxLonDeg_dist1 ==
    RxAlt(<<RxCat(<<RxOpt(RxChr("0")), RxOpt(RxChr("0")), RxRange(0, 9)>>),
            RxCat(<<RxOpt(RxChr("0")), RxRange(1, 9), RxRange(0, 9)>>),
            RxCat(<<RxRange(1, 9), RxRange(0, 9)>>),
            RxCat(<<RxChr("1"), RxRange(0, 7), RxRange(0, 9)>>),
            RxLit("180")>>)

\* (deg)(sep)(min)(sep)(sec)(\.\d+)? with the groups numbered from g
RxDms(g, deg, sep) ==
    <<RxGrp(g, deg), RxGrp(g + 1, RxSet(sep)), RxGrp(g + 2, RxSixty),
      RxGrp(g + 3, RxSet(sep)), RxGrp(g + 4, RxSixty),
      RxOpt(RxGrp(g + 5, RxCat(<<RxChr("."), RxPlus(RxDigit)>>)))>>

\* [:\s?]
RxSep_dist1 == {":", "?"} \cup WhiteSpace

\* /^(lat)\s?([NS])\s(lon)\s?([EW])$/
sexagesimalSuffixedRegex_dist1 ==
    RxCat(RxDms(1, RxLatDeg, RxSep_dist1)
          \o <<RxOpt(RxSet(WhiteSpace)), RxGrp(7, RxSet({"N", "S"})), RxSet(WhiteSpace)>>
          \o RxDms(8, RxLonDeg_dist1, RxSep_dist1)
          \o <<RxOpt(RxSet(WhiteSpace)), RxGrp(14, RxSet({"E", "W"}))>>)

\* /^([NS])\s?(lat)\s?([EW])\s?(lon)$/
sexagesimalPrefixedRegex_dist1 ==
    RxCat(<<RxGrp(1, RxSet({"N", "S"})), RxOpt(RxSet(WhiteSpace))>>
          \o RxDms(2, RxLatDeg, RxSep_dist1)
          \o <<RxOpt(RxSet(WhiteSpace)), RxGrp(8, RxSet({"E", "W"})), RxOpt(RxSet(WhiteSpace))>>
          \o RxDms(9, RxLonDeg_dist1, RxSep_dist1))

\* the decimals of what a sexagesimal regex captured, as <<x, y>>; the
\* groups of the latitude start at a and those of the longitude at o
SexagesimalXY(caps, a, latCard, o, lonCard) ==
    <<SignBy(caps[lonCard], "W",
             toDecimals(caps[o], caps[o + 2], StrCat(caps[o + 4], caps[o + 5]))),
      SignBy(caps[latCard], "S",
             toDecimals(caps[a], caps[a + 2], StrCat(caps[a + 4], caps[a + 5])))>>

\* x and y of the suffixed match, else of the prefixed match, else false
SexagesimalMatch(suffixed, prefixed) ==
    IF suffixed.matched THEN [matched |-> TRUE, xy |-> SexagesimalXY(suffixed.caps, 1, 7, 8, 14)]
    ELSE IF prefixed.matched
         THEN [matched |-> TRUE, xy |-> SexagesimalXY(prefixed.caps, 2, 1, 9, 8)]
         ELSE [matched |-> FALSE, xy |-> <<>>]

\* return [y, x]
TokensYX(m) == IF m.matched THEN Tokens(m.xy[2], m.xy[1]) ELSE NoTokens

\* return [x, y]
TokensXY(m) == IF m.matched THEN Tokens(m.xy[1], m.xy[2]) ELSE NoTokens

\* both regexes run on the clean string
SexagesimalExec(suffixedRegex, prefixedRegex, cleanString) ==
    SexagesimalMatch(RxExec(suffixedRegex, cleanString, 14),
                     RxExec(prefixedRegex, cleanString, 14))

\* returns [y, x]
_parseSexagesimalNotation_dist1(string) ==
    IF string = Str("") \/ string \in {Null, Undefined} THEN NoTokens
    ELSE LET clean1      == ReplaceOutside(ToChars(_cleanseString(string)),
                                           stripDelimiterKeep, <<" ">>)
             cleanString == ToChars(_cleanseString(Str(Join(clean1))))
         IN  TokensYX(SexagesimalExec(sexagesimalSuffixedRegex_dist1,
                                      sexagesimalPrefixedRegex_dist1, cleanString))

\* this.lat = parseFloat(decimalArr[0]); this.lon = parseFloat(decimalArr[1])
_setFromDecimalArray_dist1(st, decimalArr, string) ==
    [lon |-> parseFloat(ArrGet(decimalArr, 1)),
     lat |-> parseFloat(ArrGet(decimalArr, 0)),
     rawString |-> string]

\* readString once both parsers have run; the decimal parser runs only
\* when the sexagesimal one returned false, and false.replace in it is a
\* TypeError: _cleanseString returned false
readTokens_dist1(st, string, sexaTokens, decTokens) ==
    IF sexaTokens.matched
    THEN Res(_setFromDecimalArray_dist1(st, sexaTokens, string), TRUE, "", FALSE, "")
    ELSE IF string # Undefined /\ ~Truthy(string)
         THEN Res(st, FALSE, "TypeError", TRUE, "")
         ELSE IF decTokens.matched
              THEN Res(_setFromDecimalArray_dist1(st, decTokens, string), TRUE, "", FALSE, "")
              ELSE Res(st, FALSE, InvalidStringMsg(string), TRUE, "")

readString_dist1(st, string) ==
    IF string = Str("") THEN Res(st, FALSE, "", FALSE, "")
    ELSE readTokens_dist1(st, string, _parseSexagesimalNotation_dist1(string),
                          _parseDecimalNotation_dist1(string))

toDecimal_dist1(st) ==
    IF ~Truthy(st.lon) \/ ~Truthy(st.lat)
    THEN Res(st, FALSE, "Cannot build decimal string from empty coordinate value!", TRUE, "")
    ELSE Res(st, TRUE, "", FALSE, LatLonString(st))

toWkt_dist1(st) ==
    IF ~Truthy(st.lon) \/ ~Truthy(st.lat)
    THEN Res(st, FALSE, "Cannot build WKT string from empty coordinate value!", TRUE, "")
    ELSE Res(st, TRUE, "", FALSE, "POINT(" \o LonLatString(st) \o ")")

\* ------------------------------------------------------------------------
\* dist3: the third bundle of src/dist/merkator.js, methods on
\* Merkator.prototype that log and return false
\* ------------------------------------------------------------------------

readCoord_dist3(st, x, y) == readCoord_src(st, x, y)

\* (00?[0-9]|0?[1-9][0-9]|[1-9][0-9]|1[0-7][0-9]|180)
RxLonDeg_dist3 ==
    RxAlt(<<RxCat(<<RxChr("0"), RxOpt(RxChr("0")), RxRange(0, 9)>>),
            RxCat(<<RxOpt(RxChr("0")), RxRange(1, 9), RxRange(0, 9)>>),
            RxCat(<<RxRange(1, 9), RxRange(0, 9)>>),
            RxCat(<<RxChr("1"), RxRange(0, 7), RxRange(0, 9)>>),
            RxLit("180")>>)

\* [:\s]
RxSep_dist3 == {":"} \cup WhiteSpace

\* /^(lat)\s?([NS])\s(lon)\s?([EW])$/
sexagesimalSuffixedRegex_dist3 ==
    RxCat(RxDms(1, RxLatDeg, RxSep_dist3)
          \o <<RxOpt(RxSet(WhiteSpace)), RxGrp(7, RxSet({"N", "S"})), RxSet(WhiteSpace)>>
          \o RxDms(8, RxLonDeg_dist3, RxSep_dist3)
          \o <<RxOpt(RxSet(WhiteSpace)), RxGrp(14, RxSet({"E", "W"}))>>)

\* /^([NS])\s?(lat)\s([EW])\s?(lon)$/
sexagesimalPrefixedRegex_dist3 ==
    RxCat(<<RxGrp(1, RxSet({"N", "S"})), RxOpt(RxSet(WhiteSpace))>>
          \o RxDms(2, RxLatDeg, RxSep_dist3)
          \o <<RxSet(WhiteSpace), RxGrp(8, RxSet({"E", "W"})), RxOpt(RxSet(WhiteSpace))>>
          \o RxDms(9, RxLonDeg_dist3, RxSep_dist3))

\* cleanString.replace(/[^A-Za-z0-9- \.]/, ''): the first delimiter removed
stripDelimiter_dist3(string) ==
    ReplaceFirstOutside(ToChars(_cleanseString(string)), stripDelimiterKeep, <<>>)

\* returns [x, y]
_parseSexagesimalNotation_dist3(string) ==
    TokensXY(SexagesimalExec(sexagesimalSuffixedRegex_dist3, sexagesimalPrefixedRegex_dist3,
                             stripDelimiter_dist3(string)))

\* the regex of dist1
_parseDecimalNotation_dist3(string) ==
    DecimalTokens(RxExec(searchDecimal_dist1, stripDelimiter_dist3(string), 11))

\* this.lon = parseFloat(decimalArr[0]); this.lat = parseFloat(decimalArr[1])
_setFromDecimalArray_dist3(st, decimalArr, string) ==
    [lon |-> parseFloat(ArrGet(decimalArr, 0)),
     lat |-> parseFloat(ArrGet(decimalArr, 1)),
     rawString |-> string]

\* The setter runs when the decimal parser returned false, and then with
\* false for the array; when the parser returned an array nothing is stored.
\* false.replace is a TypeError: _cleanseString returned false.
readTokens_dist3(st, string, sexaTokens, decTokens) ==
    IF sexaTokens.matched
    THEN Res(_setFromDecimalArray_dist3(st, sexaTokens, string), TRUE, "", FALSE, "")
    ELSE IF ~decTokens.matched
         THEN Res(_setFromDecimalArray_dist3(st, decTokens, string),
                  FALSE, InvalidStringMsg(string), FALSE, "")
         ELSE Res(st, TRUE, "", FALSE, "")

readString_dist3(st, string) ==
    IF string = Str("") THEN Res(st, FALSE, "", FALSE, "")
    ELSE IF ~Truthy(string) THEN Res(st, FALSE, "TypeError", TRUE, "")
    ELSE readTokens_dist3(st, string, _parseSexagesimalNotation_dist3(string),
                          _parseDecimalNotation_dist3(string))

\* format == undefined ? 'xy' : format.toLowerCase()
toDecimal_dist3(st, format) ==
    LET fmt == IF format \in {Null, Undefined} THEN "xy" ELSE Join(ToLowerCase(ToChars(format)))
    IN  IF ~Truthy(st.lon) \/ ~Truthy(st.lat)
        THEN Res(st, FALSE, "Cannot build decimal string from empty coordinate value!",
                 FALSE, "")
        ELSE IF fmt = "xy" THEN Res(st, TRUE, "", FALSE, LonLatString(st))
             ELSE Res(st, TRUE, "", FALSE, LatLonString(st))

toWkt_dist3(st) == toWkt_src(st)

\* ------------------------------------------------------------------------
\* convertDecToDms and toSexagesimal
\* ------------------------------------------------------------------------

\* (v % 1) * 60 for v >= 0
FracTimes60(v) == Num(FALSE, v.f \div (FracDen \div 60), (v.f % (FracDen \div 60)) * 60)

\* the three digits of n < 1000
Pad3(n) == <<Digits[(n \div 100) + 1], Digits[((n \div 10) % 10) + 1], Digits[(n % 10) + 1]>>

\* the digits of n thousandths
ThousandthsChars(n) == IntChars(n \div 1000) \o <<".">> \o Pad3(n % 1000)

\* v.toFixed(3) for v >= 0: the nearest number of thousandths, the greater of
\* two equally near
toFixed3(v) ==
    ThousandthsChars(v.w * 1000 + ((v.f + (FracDen \div 2000)) \div (FracDen \div 1000)))

\* deg + '^' + min + '\'' + sec + '"'
DmsChars(deg, min, sec) ==
    IntChars(deg) \o <<"^">> \o IntChars(min) \o <<"'">> \o sec \o <<"\"">>

\* The strings the arithmetic of the build can yield.  The numbers of the
\* build are binary floating point: where (posDegs % 1) * 60 is a whole
\* number of minutes in exact arithmetic the build computes that number or
\* one just below it, of which Math.floor is the minute before and toFixed(3)
\* of the seconds is '60.000'.
DmsExact(posDegs, degDecimalX60) ==
    {DmsChars(posDegs.w, degDecimalX60.w, toFixed3(FracTimes60(degDecimalX60)))}
    \cup (IF degDecimalX60.f = 0 /\ degDecimalX60.w > 0
          THEN {DmsChars(posDegs.w, degDecimalX60.w - 1, Chars("60.000"))}
          ELSE {})

\* Math.floor(NaN) is NaN and NaN.toFixed(3) is 'NaN'
DmsOf(posDegs) ==
    IF IsNum(posDegs) THEN DmsExact(posDegs, FracTimes60(posDegs))
    ELSE {Chars("NaN^NaN'NaN\"")}

\* the strings convertDecToDms can return
convertDecToDms(decimal) == DmsOf(Abs(decimal))

\* (v > 0) ? dms += pos : dms += neg
Cardinal(v, pos, neg) == IF GtZero(v) THEN <<pos>> ELSE <<neg>>

\* yDms + ' ' + xDms
SexagesimalStrings(st) ==
    {Join(yDms \o Cardinal(st.lat, "N", "S") \o <<" ">> \o xDms \o Cardinal(st.lon, "E", "W")) :
        yDms \in convertDecToDms(st.lat), xDms \in convertDecToDms(st.lon)}

\* what toSexagesimal can yield
toSexagesimal_dist1(st) == {Res(st, TRUE, "", FALSE, s) : s \in SexagesimalStrings(st)}

toSexagesimal_dist2(st) == {Res(st, TRUE, "", FALSE, s) : s \in SexagesimalStrings(st)}

toSexagesimal_dist3(st) == {Res(st, TRUE, "", FALSE, s) : s \in SexagesimalStrings(st)}

toSexagesimal_part(st) == {Res(st, TRUE, "", FALSE, s) : s \in SexagesimalStrings(st)}

\* convertDecToDms(lat): no variable lat is in scope, a ReferenceError
toSexagesimal_src(st) == {Res(st, FALSE, "ReferenceError", TRUE, "")}

\* ------------------------------------------------------------------------
\* isValidSexagesimalString and isValidDecimalString (src, dist2 and part)
\* ------------------------------------------------------------------------

\* what a predicate yields: the boolean it returned as ok, the state as it was
Answer(st, b) == Res(st, b, "", FALSE, "")

\* a predicate that does without the checks of the ranges
isValidSexagesimalString_unchecked(st, string) ==
    Answer(st, searchSexagesimalNotation_src(string).matched)

isValidSexagesimalString_src(st, string) == Answer(st, isCoordSexagesimal_src(string))

\* a predicate that stores what it recognises
isValidDecimalString_storing(st, string) ==
    Res(createCoordFromString_src(st, string).st, isCoordDecimal_src(string), "", FALSE, "")

isValidDecimalString_src(st, string) == Answer(st, isCoordDecimal_src(string))

isValidSexagesimalString_part(st, string) == Answer(st, isCoordSexagesimal_part(string))

isValidDecimalString_part(st, string) == Answer(st, isCoordDecimal_part(string))

\* ------------------------------------------------------------------------
\* The five variants behind one interface
\* ------------------------------------------------------------------------

Variants == {"dist1", "dist2", "dist3", "src", "part"}

readCoord(v, st, x, y) ==
    CASE v = "dist1" -> readCoord_dist1(st, x, y)
      [] v = "dist2" -> readCoord_dist2(st, x, y)
      [] v = "dist3" -> readCoord_dist3(st, x, y)
      [] v = "src"   -> readCoord_src(st, x, y)
      [] v = "part"  -> readCoord_part(st, x, y)

readString(v, st, string) ==
    CASE v = "dist1" -> readString_dist1(st, string)
      [] v = "dist2" -> readString_dist2(st, string)
      [] v = "dist3" -> readString_dist3(st, string)
      [] v = "src"   -> readString_src(st, string)
      [] v = "part"  -> readString_part(st, string)

\* only dist3 and part declare the format parameter
toDecimal(v, st, format) ==
    CASE v = "dist1" -> toDecimal_dist1(st)
      [] v = "dist2" -> toDecimal_dist2(st)
      [] v = "dist3" -> toDecimal_dist3(st, format)
      [] v = "src"   -> toDecimal_src(st)
      [] v = "part"  -> toDecimal_part(st, format)

toWkt(v, st) ==
    CASE v = "dist1" -> toWkt_dist1(st)
      [] v = "dist2" -> toWkt_dist2(st)
      [] v = "dist3" -> toWkt_dist3(st)
      [] v = "src"   -> toWkt_src(st)
      [] v = "part"  -> toWkt_part(st)

toSexagesimal(v, st) ==
    CASE v = "dist1" -> toSexagesimal_dist1(st)
      [] v = "dist2" -> toSexagesimal_dist2(st)
      [] v = "dist3" -> toSexagesimal_dist3(st)
      [] v = "src"   -> toSexagesimal_src(st)
      [] v = "part"  -> toSexagesimal_part(st)

\* dist1 and dist3 have no string predicates
Validating == {"dist2", "src", "part"}

isValidSexagesimalString(v, st, string) ==
    CASE v = "part" -> isValidSexagesimalString_part(st, string)
      [] OTHER      -> isValidSexagesimalString_src(st, string)

isValidDecimalString(v, st, string) ==
    CASE v = "part" -> isValidDecimalString_part(st, string)
      [] OTHER      -> isValidDecimalString_src(st, string)

getLon(st) == st.lon

getLat(st) == st.lat

getInputString(st) == st.rawString

\* ------------------------------------------------------------------------
\* The state machine: callers that hold coordinates A and B and call the
\* operations in any order
\* ------------------------------------------------------------------------

VARIABLES variant, store, last, calls

vars == <<variant, store, last, calls>>

\* the calls of one run
MaxCalls == 2

Instances == {"A", "B"}

Other(i) == IF i = "A" THEN "B" ELSE "A"

\* dist2 and part keep lon, lat and rawString in variables of the module, which
\* every holder of the module shares; dist1, dist3 and src keep them in the
\* object
Cell(i) == IF variant \in {"dist2", "part"} THEN "module" ELSE i

Cells == Instances \cup {"module"}

\* what instance i reads back
View(i) == store[Cell(i)]

\* strings handed to readString
StringInputs ==
    {"45 34 21 N 120 47 23 E", "90 60 60 S 180 60 60 W", "34.45456 -101.21354",
     "0.0 10.5", "not a coordinate", ""}

\* and by the callers that hold two coordinates
PairStringInputs == {"34.45456 -101.21354", "not a coordinate"}

\* strings handed to isValidSexagesimalString and isValidDecimalString
ValidatorInputs == {"45 34 21 N 120 47 23 E", "34.45456 -101.21354"}

\* 1e-7 and 180.0001
Tiny == Num(FALSE, 0, FracDen \div 10000000)

JustOver == Num(FALSE, LonMax, FracDen \div 10000)

\* pairs <<x, y>> handed to readCoord: zeros, the bounds, 1e-7 (which
\* ToString writes with an exponent) and values just out of range
CoordInputs ==
    {<<Int2Num(0), Int2Num(0)>>, <<Int2Num(0), Int2Num(LatMax)>>,
     <<Int2Num(LonMax), Int2Num(LatMax)>>, <<Int2Num(0 - LonMax), Int2Num(0 - LatMax)>>,
     <<Tiny, Int2Num(0)>>, <<Tiny, Int2Num(LatMax + 1)>>,
     <<Int2Num(0), Int2Num(LatMax + 1)>>, <<JustOver, Int2Num(0)>>}

\* and by the callers that hold two coordinates
PairCoordInputs ==
    {<<Int2Num(LonMax), Int2Num(0 - LatMax)>>, <<Int2Num(LonMax), Int2Num(LatMax + 1)>>}

\* no format, longitude first and latitude first
FormatInputs == {Undefined, Str("XY"), Str("YX")}

Init ==
    /\ variant \in Variants
    /\ store = [c \in Cells |-> Empty]
    /\ last = [op |-> "new", inst |-> "A", x |-> Undefined, y |-> Undefined,
               ok |-> TRUE, err |-> "", thrown |-> FALSE, out |-> "",
               pre |-> Empty, other |-> Empty,
               from |-> [op |-> "new", ok |-> TRUE, x |-> Undefined]]
    /\ calls = 0

\* instance i ran op with arguments x and y, which yielded r
Call(i, op, x, y, r) ==
    /\ calls' = calls + 1
    /\ store' = [store EXCEPT ![Cell(i)] = r.st]
    /\ last' = [op |-> op, inst |-> i, x |-> x, y |-> y,
                ok |-> r.ok, err |-> r.err, thrown |-> r.thrown, out |-> r.out,
                pre |-> View(i), other |-> View(Other(i)),
                from |-> [op |-> last.op, ok |-> last.ok, x |-> last.x]]
    /\ UNCHANGED variant

ReadString(i, strings) ==
    /\ calls < MaxCalls
    /\ \E s \in strings :
          Call(i, "readString", Str(s), Undefined, readString(variant, View(i), Str(s)))

ReadCoord(i, pairs) ==
    /\ calls < MaxCalls
    /\ \E p \in pairs :
          Call(i, "readCoord", p[1], p[2], readCoord(variant, View(i), p[1], p[2]))

\* only part exports switchXY
SwitchXY(i) ==
    /\ calls < MaxCalls
    /\ variant = "part"
    /\ Call(i, "switchXY", Undefined, Undefined, Res(switchXY(View(i)), TRUE, "", FALSE, ""))

ToWkt(i) ==
    /\ calls < MaxCalls
    /\ Call(i, "toWkt", Undefined, Undefined, toWkt(variant, View(i)))

ToDecimal(i) ==
    /\ calls < MaxCalls
    /\ \E format \in FormatInputs :
          Call(i, "toDecimal", format, Undefined, toDecimal(variant, View(i), format))

ToSexagesimal(i) ==
    /\ calls < MaxCalls
    /\ \E r \in toSexagesimal(variant, View(i)) :
          Call(i, "toSexagesimal", Undefined, Undefined, r)

\* readString(toSexagesimal()): readString runs on what toSexagesimal
\* returned, and not at all when toSexagesimal threw
readBack(v, st, dms) == IF dms.thrown THEN dms ELSE readString(v, st, Str(dms.out))

ReadBack(i) ==
    /\ calls < MaxCalls
    /\ \E dms \in toSexagesimal(variant, View(i)) :
          Call(i, "readBack", Str(dms.out), Undefined, readBack(variant, View(i), dms))

IsValidSexagesimalString(i, strings) ==
    /\ calls < MaxCalls
    /\ variant \in Validating
    /\ \E s \in strings :
          Call(i, "isValidSexagesimalString", Str(s), Undefined,
               isValidSexagesimalString(variant, View(i), Str(s)))

IsValidDecimalString(i, strings) ==
    /\ calls < MaxCalls
    /\ variant \in Validating
    /\ \E s \in strings :
          Call(i, "isValidDecimalString", Str(s), Undefined,
               isValidDecimalString(variant, View(i), Str(s)))

\* one coordinate
Next ==
    \/ ReadString("A", StringInputs)
    \/ ReadCoord("A", CoordInputs)
    \/ SwitchXY("A")
    \/ ToWkt("A")
    \/ ToDecimal("A")
    \/ ToSexagesimal("A")
    \/ ReadBack("A")
    \/ IsValidSexagesimalString("A", ValidatorInputs)
    \/ IsValidDecimalString("A", ValidatorInputs)

Spec == Init /\ [][Next]_vars

\* two coordinates, called in any order
NextPair ==
    \E i \in Instances :
        \/ ReadString(i, PairStringInputs)
        \/ ReadCoord(i, PairCoordInputs)
        \/ SwitchXY(i)
        \/ ToWkt(i)
        \/ ToDecimal(i)
        \/ ToSexagesimal(i)
        \/ ReadBack(i)
        \/ IsValidSexagesimalString(i, PairStringInputs)
        \/ IsValidDecimalString(i, PairStringInputs)

SpecPair == Init /\ [][NextPair]_vars

\* the reads of one run of a caller that reads into a new coordinate
MaxReads == 1

\* the fields of a sexagesimal string: degrees, minutes, seconds and the
\* hemisphere letter of the first group and of the second
Usual ==
    [latDeg |-> "45", latMin |-> "34", latSec |-> "21", latCard |-> "N",
     lonDeg |-> "120", lonMin |-> "47", lonSec |-> "23", lonCard |-> "E"]

\* the usual fields with one field at its bound, over it or, for seconds,
\* over it by a fraction
AtBounds ==
    {[Usual EXCEPT !.latDeg = "90", !.latMin = "00", !.latSec = "00"],
     [Usual EXCEPT !.latMin = "60"], [Usual EXCEPT !.latSec = "60"],
     [Usual EXCEPT !.lonDeg = "180", !.lonMin = "00", !.lonSec = "00"],
     [Usual EXCEPT !.lonMin = "60"], [Usual EXCEPT !.lonSec = "60"]}

OverBounds ==
    {[Usual EXCEPT !.latDeg = "91"], [Usual EXCEPT !.latMin = "61"],
     [Usual EXCEPT !.latSec = "61"], [Usual EXCEPT !.latSec = "60.5"],
     [Usual EXCEPT !.lonDeg = "181"], [Usual EXCEPT !.lonMin = "61"],
     [Usual EXCEPT !.lonSec = "61"], [Usual EXCEPT !.lonSec = "60.5"]}

\* the usual fields in each hemisphere
Hemispheres ==
    {[Usual EXCEPT !.latCard = a, !.lonCard = o] : a \in {"N", "S"}, o \in {"E", "W"}}

\* the letters in the other order: E or W with the first group, N or S with
\* the second
LettersSwapped ==
    {[Usual EXCEPT !.latCard = "E", !.lonCard = "N"],
     [Usual EXCEPT !.latCard = "W", !.lonCard = "S"]}

SexagesimalFields == AtBounds \cup OverBounds \cup Hemispheres \cup LettersSwapped

\* "D M S H D M S H" with sep between the fields of a group
Suffixed(f, sep) ==
    f.latDeg \o sep \o f.latMin \o sep \o f.latSec \o " " \o f.latCard \o " "
    \o f.lonDeg \o sep \o f.lonMin \o sep \o f.lonSec \o " " \o f.lonCard

\* "H D M S H D M S"
Prefixed(f, sep) ==
    f.latCard \o " " \o f.latDeg \o sep \o f.latMin \o sep \o f.latSec \o " "
    \o f.lonCard \o " " \o f.lonDeg \o sep \o f.lonMin \o sep \o f.lonSec

\* a decimal pair with a comma, with whitespace around it and in runs, and
\* with both
Separated ==
    {"34.45456, -101.21354", "34.45456,-101.21354", "  34.45456 \t -101.21354 ",
     " 34.45456 ,  -101.21354  "}

\* what the caller hands to readString
TextInputs ==
    {Str(Suffixed(f, " ")) : f \in SexagesimalFields}
    \cup {Str(Suffixed(f, ":")) : f \in Hemispheres}
    \cup {Str(Prefixed(f, ":")) : f \in Hemispheres}
    \cup {Str(s) : s \in Separated}
    \cup {Null, Undefined, Str("")}

\* readString on a value of any type
ReadText(i, inputs) ==
    /\ calls < MaxReads
    /\ \E s \in inputs :
          Call(i, "readString", s, Undefined, readString(variant, View(i), s))

\* arguments that are no number: a string without digits, a missing
\* argument and NaN
NonNumbers == {Str("abc"), Undefined, NaN}

\* pairs <<x, y>> of which one or both are no number, and a pair of strings
\* that write numbers
ValueInputs ==
    {<<n, Int2Num(45)>> : n \in NonNumbers}
    \cup {<<Int2Num(120), n>> : n \in NonNumbers}
    \cup {<<n, n>> : n \in NonNumbers}
    \cup {<<Str("120.5"), Str("45")>>}

\* readCoord on values of any type
ReadValues(i, pairs) ==
    /\ calls < MaxReads
    /\ \E p \in pairs :
          Call(i, "readCoord", p[1], p[2], readCoord(variant, View(i), p[1], p[2]))

NextRead ==
    \/ ReadText("A", TextInputs)
    \/ ReadValues("A", ValueInputs)

SpecRead == Init /\ [][NextRead]_vars

\* ------------------------------------------------------------------------
\* Properties
\* ------------------------------------------------------------------------

\* the coordinate the last call ran on, as it reads back now
Now == View(last.inst)

\* |v| <= n
Within(v, n) == IsNum(v) /\ ~GtInt(Abs(v), n)

\* |v| > n
Beyond(v, n) == IsNum(v) /\ GtInt(Abs(v), n)

IsZero(v) == IsNum(v) /\ v.w = 0 /\ v.f = 0

\* C1: every stored number is within range, |latitude| <= 90 and
\* |longitude| <= 180, after any calls of readString, readCoord and switchXY.
C1_StoredInRange ==
    \A i \in Instances :
        /\ IsNum(getLat(View(i))) => Within(getLat(View(i)), LatMax)
        /\ IsNum(getLon(View(i))) => Within(getLon(View(i)), LonMax)

\* C2: longitude and latitude are both set or both unset in every state,
\* failed calls included: one is null exactly when the other is, and one is
\* a number exactly when the other is.
C2_BothOrNeither ==
    \A i \in Instances :
        /\ (getLon(View(i)) = Null) <=> (getLat(View(i)) = Null)
        /\ IsNum(getLon(View(i))) <=> IsNum(getLat(View(i)))

\* a failed readCoord on a stored coordinate left both unset
C2_Witness ==
    /\ last.op = "readCoord"
    /\ ~last.ok
    /\ getLon(last.pre) # Null /\ getLat(last.pre) # Null
    /\ getLon(Now) = Null /\ getLat(Now) = Null

\* C3: a stored 0 is a set value: with numbers stored of which one is
\* exactly 0, toWkt and toDecimal return the formatted string.
C3_ZeroIsSet ==
    (/\ last.op = "toWkt" \/ (last.op = "toDecimal" /\ last.x = Str("XY"))
     /\ IsNum(getLon(last.pre)) /\ IsNum(getLat(last.pre))
     /\ IsZero(getLon(last.pre)) \/ IsZero(getLat(last.pre)))
    => last.ok /\ last.out # ""

\* C4: an operation invoked on one coordinate never changes the longitude,
\* latitude or input string read back from the other.
C4_PerInstance ==
    last.op # "new" => View(Other(last.inst)) = last.other

\* what a failed readString and a failed readCoord leave of a stored coordinate
AfterFailedReadString(st) == readString(variant, st, Str("not a coordinate")).st

AfterFailedReadCoord(st) == readCoord(variant, st, Int2Num(0), Int2Num(LatMax + 1)).st

\* C5: a failed readString or readCoord leaves the triple (lon, lat,
\* rawString) as it was before the call or empty, the same of the two for
\* both operations; it stores neither the rejected text nor a non-number.
C5_NoPartialState ==
    /\ (last.op \in {"readString", "readCoord"} /\ ~last.ok) => Now \in {last.pre, Empty}
    /\ last.pre # Empty =>
          \/ AfterFailedReadString(last.pre) = last.pre /\ AfterFailedReadCoord(last.pre) = last.pre
          \/ AfterFailedReadString(last.pre) = Empty /\ AfterFailedReadCoord(last.pre) = Empty

\* C6: readCoord(lon, lat) of numbers with |lon| <= 180 and |lat| <= 90
\* succeeds from any state, and getLon() = lon and getLat() = lat afterwards.
C6_ReadCoordInRange ==
    (/\ last.op = "readCoord"
     /\ Within(last.x, LonMax)
     /\ Within(last.y, LatMax))
    => last.ok /\ getLon(Now) = last.x /\ getLat(Now) = last.y

\* C7: readCoord of numbers with |lat| > 90 or |lon| > 180 fails with a
\* message and stores neither value; the message for a latitude out of
\* range differs from the one for a longitude out of range.
C7_OutOfRangeFails ==
    (/\ last.op = "readCoord"
     /\ IsNum(last.x) /\ IsNum(last.y)
     /\ Beyond(last.y, LatMax) \/ Beyond(last.x, LonMax))
    => /\ ~last.ok
       /\ last.err # ""
       /\ Now \in {last.pre, Empty}
       /\ ~Beyond(last.x, LonMax) =>
             last.err # readCoord(variant, last.pre, JustOver, Int2Num(0)).err
       /\ ~Beyond(last.y, LatMax) =>
             last.err # readCoord(variant, last.pre, Int2Num(0), Int2Num(LatMax + 1)).err

\* C8: after a successful readCoord getInputString() is the empty string,
\* whatever was stored before.
C8_ReadCoordClearsSource ==
    (last.op = "readCoord" /\ last.ok) => getInputString(Now) = Str("")

\* C9: after a successful readString(text) getInputString() is text and
\* longitude and latitude are both set.
C9_ReadStringStores ==
    (last.op = "readString" /\ last.ok)
    => /\ getInputString(Now) = last.x
       /\ IsNum(getLon(Now)) /\ IsNum(getLat(Now))

\* the strings of the decimal grammar handed to readString, with the two
\* numbers each writes
DecimalFirst(s) ==
    IF s = "34.45456 -101.21354" THEN Num(FALSE, 34, 45456 * 3600) ELSE Num(FALSE, 0, 0)

DecimalSecond(s) ==
    IF s = "34.45456 -101.21354" THEN Num(TRUE, 101, 21354 * 3600)
    ELSE Num(FALSE, 10, 5 * (FracDen \div 10))

DecimalInputs == {"34.45456 -101.21354", "0.0 10.5"}

\* C10: readString of a string "a b" of the decimal grammar succeeds and
\* stores a as latitude and b as longitude, not the reverse and not the
\* values of an earlier call.
C10_DecimalOrder ==
    (last.op = "readString" /\ last.x.s \in DecimalInputs)
    => /\ last.ok
       /\ getLat(Now) = DecimalFirst(last.x.s)
       /\ getLon(Now) = DecimalSecond(last.x.s)

\* whether the sexagesimal and the decimal grammar of variant v take the string
MatchesSexagesimal(v, string) ==
    CASE v = "dist1" -> _parseSexagesimalNotation_dist1(string).matched
      [] v = "dist3" -> _parseSexagesimalNotation_dist3(string).matched
      [] v = "part"  -> isCoordSexagesimal_part(string)
      [] OTHER       -> isCoordSexagesimal_src(string)

MatchesDecimal(v, string) ==
    CASE v = "dist1" -> _parseDecimalNotation_dist1(string).matched
      [] v = "dist3" -> _parseDecimalNotation_dist3(string).matched
      [] v = "part"  -> isCoordDecimal_part(string)
      [] OTHER       -> isCoordDecimal_src(string)

\* what the sexagesimal branch of variant v stores for the string
StoredSexagesimal(v, st, string) ==
    CASE v = "dist1" ->
           _setFromDecimalArray_dist1(st, _parseSexagesimalNotation_dist1(string), string)
      [] v = "dist3" ->
           _setFromDecimalArray_dist3(st, _parseSexagesimalNotation_dist3(string), string)
      [] v = "part"  -> setCoordSexagesimal(st, searchSexagesimalNotation_part(string), string)
      [] OTHER       -> setCoordSexagesimal(st, searchSexagesimalNotation_src(string), string)

\* C11: readString of a non-empty string that the sexagesimal grammar takes
\* succeeds with what the sexagesimal branch stores, and readString of a
\* non-empty string that neither grammar takes fails with the message that
\* names the string as not a valid coordinate string.
C11_GrammarOrder ==
    ((last.op = "readString" \/ last.op = "readBack") /\ last.x # Str(""))
    => IF MatchesSexagesimal(variant, last.x)
       THEN last.ok /\ Now = StoredSexagesimal(variant, last.pre, last.x)
       ELSE ~MatchesDecimal(variant, last.x)
               => ~last.ok /\ last.err = InvalidStringMsg(last.x)

\* readString rejected a string that neither grammar takes
C11_Witness ==
    /\ last.op = "readString"
    /\ last.x = Str("not a coordinate")
    /\ ~MatchesSexagesimal(variant, last.x) /\ ~MatchesDecimal(variant, last.x)
    /\ ~last.ok
    /\ last.err = InvalidStringMsg(last.x)

\* C12: readString("") fails, and longitude, latitude and the input string
\* read back after it as they did before it.
C12_EmptyStringNoChange ==
    (last.op = "readString" /\ last.x = Str(""))
    => ~last.ok /\ Now = last.pre

\* what toWkt is to return for the stored numbers: 'POINT(' + lon + ' ' + lat + ')'
WktOf(st) == "POINT(" \o Join(ToChars(st.lon) \o <<" ">> \o ToChars(st.lat)) \o ")"

\* a number is stored as longitude and as latitude
Stored(st) == IsNum(st.lon) /\ IsNum(st.lat)

\* C13: with numbers stored, toWkt returns "POINT(" + lon + " " + lat + ")"
\* of the values stored at the call; the numbers a and b of a decimal string
\* "a b" read just before are those values, b as longitude.
C13_WktLonLat ==
    /\ (last.op = "toWkt" /\ Stored(last.pre)) => last.ok /\ last.out = WktOf(last.pre)
    /\ (last.op = "toWkt" /\ last.from.op = "readString" /\ last.from.x = Str("34.45456 -101.21354"))
          => last.out = "POINT(-101.21354 34.45456)"

\* neither a longitude nor a latitude is stored: null in a new coordinate and
\* after clearVars, NaN after the failed readString of dist3
Unset(st) == ~IsNum(st.lon) /\ ~IsNum(st.lat)

\* the message of toWkt and of toDecimal for an empty coordinate
EmptyMsg(op) ==
    IF op = "toWkt" THEN "Cannot build WKT string from empty coordinate value!"
    ELSE "Cannot build decimal string from empty coordinate value!"

\* toDecimal was called with an order (part reads the format it is given
\* before it looks at the coordinate)
OrderGiven == last.x # Undefined \/ variant # "part"

C15_SexagesimalEmptyFails ==
    (last.op = "toSexagesimal" /\ Unset(last.pre)) => ~last.ok /\ last.out = ""

\* C16: with numbers stored, toDecimal returns lon + " " + lat for the
\* order that names the longitude first and lat + " " + lon for the order
\* that names the latitude first.
C16_DecimalOrderSelector ==
    (last.op = "toDecimal" /\ Stored(last.pre))
    => /\ last.x = Str("XY") => last.ok /\ last.out = LonLatString(last.pre)
       /\ last.x = Str("YX") => last.ok /\ last.out = LatLonString(last.pre)

\* the positions of the spaces of a string
Spaces(cs) == {i \in 1..Len(cs) : cs[i] = " "}

\* cs is two groups with one space between, the first ending in the letter
\* ns and the second in ew
TwoGroups(cs, ns, ew) ==
    \E i \in 2..(Len(cs) - 1) :
        Spaces(cs) = {i} /\ cs[i - 1] = ns /\ cs[Len(cs)] = ew

\* C17: with numbers stored, toSexagesimal returns a string and throws
\* nothing: the latitude group, one space, the longitude group, the first
\* ending in N when latitude > 0 and in S otherwise, the second in E when
\* longitude > 0 and in W otherwise.
C17_SexagesimalShape ==
    (last.op = "toSexagesimal" /\ Stored(last.pre))
    => /\ last.ok /\ ~last.thrown
       /\ TwoGroups(Chars(last.out),
                    IF GtZero(last.pre.lat) THEN "N" ELSE "S",
                    IF GtZero(last.pre.lon) THEN "E" ELSE "W")

\* C18: switchXY exchanges the two values: getLon() afterwards is getLat()
\* before and getLat() afterwards is getLon() before; with nothing stored
\* both stay null.
C18_SwapExchanges ==
    last.op = "switchXY"
    => /\ getLon(Now) = getLat(last.pre)
       /\ getLat(Now) = getLon(last.pre)
       /\ (getLon(last.pre) = Null /\ getLat(last.pre) = Null)
             => (getLon(Now) = Null /\ getLat(Now) = Null)

\* switchXY exchanged two stored numbers that differ
C18_Witness ==
    /\ last.op = "switchXY"
    /\ Stored(last.pre)
    /\ getLon(last.pre) # getLat(last.pre)
    /\ getLon(Now) = getLat(last.pre)
    /\ getLat(Now) = getLon(last.pre)

\* C19: isValidSexagesimalString and isValidDecimalString return a boolean
\* (they throw nothing) and leave longitude, latitude and the input string as
\* they were, for every string and from every state.
C19_PredicatesPure ==
    last.op \in {"isValidSexagesimalString", "isValidDecimalString"}
    => ~last.thrown /\ last.ok \in BOOLEAN /\ Now = last.pre

\* isValidDecimalString said true of a string other than the one stored, and
\* what was stored is still there
C19_Witness ==
    /\ last.op = "isValidDecimalString"
    /\ last.ok
    /\ Stored(last.pre)
    /\ getInputString(last.pre) # last.x
    /\ Now = last.pre

\* a and b have one sign and differ by at most 0.00001
Close(a, b) ==
    /\ IsNum(a) /\ IsNum(b)
    /\ a.neg = b.neg
    /\ a.w - b.w \in {-1, 0, 1}
    /\ (a.w - b.w) * FracDen + a.f - b.f \in (0 - (FracDen \div 100000))..(FracDen \div 100000)

\* C20: after a successful readString of a decimal string "a b",
\* readString(toSexagesimal()) succeeds and stores a latitude within 0.00001
\* of a and a longitude within 0.00001 of b, each with the sign of the
\* original.
C20_RoundTrip ==
    (/\ last.op = "readBack"
     /\ last.from.op = "readString" /\ last.from.ok
     /\ last.from.x.s \in DecimalInputs)
    => /\ last.ok
       /\ Close(getLat(Now), DecimalFirst(last.from.x.s))
       /\ Close(getLon(Now), DecimalSecond(last.from.x.s))

\* the last call made once more, with the arguments it had
Again ==
    IF last.op = "readString" THEN readString(variant, Now, last.x)
    ELSE readCoord(variant, Now, last.x, last.y)

\* r ended as the last call did and left what the last call left
SameOutcome(r) ==
    /\ r.ok = last.ok /\ r.err = last.err /\ r.thrown = last.thrown
    /\ r.st = Now

\* C21: readString(s) and readCoord(x, y) are idempotent: calling one a
\* second time with the same arguments, right after the first call, succeeds
\* or fails as the first call did (with the same message) and leaves
\* longitude, latitude and the input string as the first call left them.
C21_Idempotent ==
    last.op \in {"readString", "readCoord"} => SameOutcome(Again)

\* a readString that replaced a stored coordinate by another, and that would
\* store that one again
C21_Witness ==
    /\ last.op = "readString" /\ last.ok
    /\ Stored(last.pre) /\ Stored(Now)
    /\ getLat(Now) # getLat(last.pre)
    /\ SameOutcome(Again)

\* n < the number that field s writes
FieldOver(s, n) == GtInt(parseFloat(Str(s)), n)

OutOfRange(f) ==
    \/ FieldOver(f.latDeg, LatMax) \/ FieldOver(f.lonDeg, LonMax)
    \/ FieldOver(f.latMin, 60) \/ FieldOver(f.latSec, 60)
    \/ FieldOver(f.lonMin, 60) \/ FieldOver(f.lonSec, 60)

\* C22: the sexagesimal matcher takes no string whose latitude degrees are
\* over 90, whose longitude degrees are over 180 or whose minutes or seconds,
\* fraction included, are over 60 in either group, and it takes the strings
\* whose fields are at these bounds, minutes or seconds of 60 among them.
C22_SexagesimalRanges ==
    \A f \in AtBounds \cup OverBounds :
        (last.op = "readString" /\ last.x = Str(Suffixed(f, " ")))
        => (MatchesSexagesimal(variant, last.x) <=> ~OutOfRange(f))

\* C23: a string with E or W behind the first group and N or S behind the
\* second is no match of the sexagesimal matcher, and readString of it fails
\* with the message that names the string as not a valid coordinate string
\* and leaves longitude, latitude and the input string as they were.
C23_LetterOrder ==
    \A f \in LettersSwapped :
        (last.op = "readString" /\ last.x = Str(Suffixed(f, " ")))
        => /\ ~MatchesSexagesimal(variant, last.x)
           /\ ~last.ok /\ last.err = InvalidStringMsg(last.x)
           /\ Now = last.pre

\* C24: readString of the prefixed form "H D:M:S H D:M:S" succeeds and
\* stores the latitude and the longitude that readString of the suffixed form
\* "D:M:S H D:M:S H" of the same fields succeeds with.
C24_PrefixedAsSuffixed ==
    \A f \in Hemispheres :
        (last.op = "readString" /\ last.x = Str(Prefixed(f, ":")))
        => LET suffixed == readString(variant, last.pre, Str(Suffixed(f, ":")))
           IN  /\ last.ok /\ suffixed.ok
               /\ Stored(Now)
               /\ getLat(Now) = getLat(suffixed.st)
               /\ getLon(Now) = getLon(suffixed.st)

\* degrees + (minutes + seconds / 60) / 60 of three fields
Magnitude(deg, min, sec) ==
    Add(parseFloat(Str(deg)),
        Div60(Add(parseFloat(Str(min)), Div60(parseFloat(Str(sec))))))

\* the strings that write the fields f
FormsOf(f) == {Str(Suffixed(f, " ")), Str(Suffixed(f, ":")), Str(Prefixed(f, ":"))}

\* C25: after readString of a string that the sexagesimal matcher takes, the
\* latitude stored is degrees + (minutes + seconds / 60) / 60 of the first
\* group, negated when its letter is S and as it is when the letter is N, and
\* the longitude stored is that of the second group, negated when its letter
\* is W and as it is when the letter is E.
C25_SexagesimalValue ==
    \A f \in SexagesimalFields :
        (/\ last.op = "readString" /\ last.x \in FormsOf(f)
         /\ MatchesSexagesimal(variant, last.x))
        => /\ last.ok
           /\ getLat(Now) = IF f.latCard = "S"
                            THEN Negate(Magnitude(f.latDeg, f.latMin, f.latSec))
                            ELSE Magnitude(f.latDeg, f.latMin, f.latSec)
           /\ getLon(Now) = IF f.lonCard = "W"
                            THEN Negate(Magnitude(f.lonDeg, f.lonMin, f.lonSec))
                            ELSE Magnitude(f.lonDeg, f.lonMin, f.lonSec)

\* readString stored a string of the southern and western hemisphere
C25_Witness ==
    /\ last.op = "readString" /\ last.ok
    /\ last.x \in FormsOf([Usual EXCEPT !.latCard = "S", !.lonCard = "W"])
    /\ MatchesSexagesimal(variant, last.x)
    /\ Stored(Now)
    /\ getLat(Now).neg /\ getLat(Now).w = 45
    /\ getLon(Now).neg /\ getLon(Now).w = 120

\* what the normalizer of variant v makes of a string
Normalize(v, string) ==
    CASE v \in {"dist1", "dist3"} -> _cleanseString(string)
      [] v = "part"              -> cleanseString_part(string)
      [] OTHER                   -> cleanseString_src(string)

\* cs has no comma, no two whitespace characters in a row and no whitespace
\* at either end
Canonical(cs) ==
    /\ \A i \in 1..Len(cs) : cs[i] # ","
    /\ \A i \in 1..(Len(cs) - 1) : ~(cs[i] \in WhiteSpace /\ cs[i + 1] \in WhiteSpace)
    /\ cs # <<>> => (cs[1] \notin WhiteSpace /\ cs[Len(cs)] \notin WhiteSpace)

\* C26: the normalizer is idempotent and canonical: what it makes of a
\* non-empty string it leaves as it is when applied again, and it has no
\* comma, no run of two or more whitespace characters and no whitespace at
\* either end.
C26_NormalizerCanonical ==
    (last.op = "readString" /\ last.x.k = "str" /\ last.x # Str(""))
    => /\ Normalize(variant, Normalize(variant, last.x)) = Normalize(variant, last.x)
       /\ Canonical(ToChars(Normalize(variant, last.x)))

\* C27: for null and for undefined the normalizer returns false, its
\* no-match value, and readString(null) and readString(undefined) fail as
\* readString of any string that is no coordinate does, with the message
\* that names the input as not a valid coordinate string, and with no other
\* error.
C27_NullInput ==
    (last.op = "readString" /\ last.x \in {Null, Undefined})
    => /\ Normalize(variant, last.x) = False
       /\ ~last.ok
       /\ last.err = InvalidStringMsg(last.x)

\* C28: readCoord never stores what is no number: when an argument is a
\* string without digits, is missing or is NaN, the call fails and neither
\* longitude nor latitude is NaN afterwards.
C28_NoNaNStored ==
    (last.op = "readCoord" /\ (last.x \in NonNumbers \/ last.y \in NonNumbers))
    => /\ ~last.ok
       /\ getLon(Now) # NaN
       /\ getLat(Now) # NaN

\* what the two predicates say of the string of the last call
SaysSexagesimal == isValidSexagesimalString(variant, last.pre, last.x).ok

SaysDecimal == isValidDecimalString(variant, last.pre, last.x).ok

\* C29: in the variants that have the predicates, readString(s) succeeds
\* exactly when isValidSexagesimalString(s) or isValidDecimalString(s)
\* returns true, and the two never return true of the same string.
C29_PredicatesAgree ==
    (last.op = "readString" /\ variant \in Validating /\ last.x.k = "str")
    => /\ last.ok <=> (SaysSexagesimal \/ SaysDecimal)
       /\ ~(SaysSexagesimal /\ SaysDecimal)

\* readString stored a decimal pair that isValidDecimalString accepts and
\* isValidSexagesimalString does not
C29_Witness ==
    /\ last.op = "readString" /\ variant \in Validating
    /\ last.x \in {Str(s) : s \in Separated}
    /\ last.ok /\ Stored(Now)
    /\ SaysDecimal /\ ~SaysSexagesimal

\* C30: a second switchXY, called right after a switchXY, leaves the
\* longitude and the latitude that were stored before the first, and a
\* switchXY leaves the input string as it was.
C30_SwapInvolution ==
    last.op = "switchXY"
    => /\ getLon(switchXY(Now)) = getLon(last.pre)
       /\ getLat(switchXY(Now)) = getLat(last.pre)
       /\ getInputString(Now) = getInputString(last.pre)
       /\ getInputString(switchXY(Now)) = getInputString(last.pre)

\* switchXY ran on a coordinate read from a string, whose two values differ
C30_Witness ==
    /\ last.op = "switchXY"
    /\ last.from.op = "readString" /\ last.from.ok
    /\ Stored(last.pre)
    /\ getLon(last.pre) # getLat(last.pre)
    /\ getInputString(last.pre) # Str("")
    /\ Now # last.pre
    /\ switchXY(Now) = last.pre

=============================================================================
